---- MODULE Spec2Model ----
(***************************************************************************)
(* A model of the linalg package (src/matrix.go): the Matrix type, its     *)
(* constructors and its operations, as a state machine over a heap of      *)
(* Matrix objects.                                                         *)
(*                                                                         *)
(* float64 values are modelled exactly (no rounding, no overflow) as       *)
(* extended rationals <<s, n, d>> = s * n / d with s in {1, -1}:           *)
(*   finite non-zero   n > 0, d > 0, gcd(n, d) = 1                         *)
(*   +0, -0            <<1, 0, 1>>, <<-1, 0, 1>>                            *)
(*   +Inf, -Inf        <<1, 1, 0>>, <<-1, 1, 0>>                            *)
(*   NaN               <<1, 0, 0>>                                          *)
(* with the IEEE-754 rules for the special values, which is what Go's      *)
(* float64 division by zero produces (it does not panic).                  *)
(***************************************************************************)
EXTENDS Integers, Sequences, FiniteSets, TLC

VARIABLES heap, ret, fuel

vars == <<heap, ret, fuel>>

(***************************************************************************)
(* Bounds of the model.                                                    *)
(***************************************************************************)
\* largest number of rows or columns of a grid handed to a constructor
MaxDim == 2
\* largest order of the square input matrices of SpecSquare
MaxOrder == 3
\* entries of the square input matrices of SpecSquare are -MaxEntry..MaxEntry
MaxEntry == 1
\* number of calls in one behaviour of Spec
MaxCalls == 3

(***************************************************************************)
(* float64                                                                 *)
(***************************************************************************)
RECURSIVE GCD(_, _)
GCD(a, b) == IF b = 0 THEN a ELSE GCD(b, a % b)

Abs(i) == IF i < 0 THEN -i ELSE i

Sgn(i) == IF i < 0 THEN -1 ELSE 1

NaN == <<1, 0, 0>>

PosZero == <<1, 0, 1>>

NegZero == <<-1, 0, 1>>

One == <<1, 1, 1>>

\* the float64 of an integer literal
F(i) == <<Sgn(i), Abs(i), 1>>

IsNaN(x) == x[2] = 0 /\ x[3] = 0

IsInf(x) == x[2] # 0 /\ x[3] = 0

IsFinite(x) == x[3] # 0

IsZero(x) == x[2] = 0 /\ x[3] # 0

Norm(s, n, d) ==
    IF d = 0 THEN (IF n = 0 THEN NaN ELSE <<s, 1, 0>>)
    ELSE IF n = 0 THEN <<s, 0, 1>>
    ELSE LET g == GCD(n, d) IN <<s, n \div g, d \div g>>

\* x * y
Mul(x, y) == Norm(x[1] * y[1], x[2] * y[2], x[3] * y[3])

\* x / y: a finite non-zero x over a zero is an infinity, 0/0 is NaN
Div(x, y) == Norm(x[1] * y[1], x[2] * y[3], x[3] * y[2])

Neg(x) == IF IsNaN(x) THEN NaN ELSE <<-x[1], x[2], x[3]>>

\* x + y
Add(x, y) ==
    IF IsNaN(x) \/ IsNaN(y) THEN NaN
    ELSE IF IsInf(x) /\ IsInf(y) THEN (IF x[1] = y[1] THEN x ELSE NaN)
    ELSE IF IsInf(x) THEN x
    ELSE IF IsInf(y) THEN y
    ELSE LET num == x[1] * x[2] * y[3] + y[1] * y[2] * x[3]
         IN  IF num = 0
             THEN (IF IsZero(x) /\ IsZero(y) /\ x[1] = -1 /\ y[1] = -1
                   THEN NegZero ELSE PosZero)
             ELSE Norm(Sgn(num), Abs(num), x[3] * y[3])

\* x - y
Sub(x, y) == Add(x, Neg(y))

\* x == y: false when either is NaN, true for +0 and -0
Eq(x, y) ==
    /\ ~IsNaN(x)
    /\ ~IsNaN(y)
    /\ \/ x = y
       \/ IsZero(x) /\ IsZero(y)

\* x < y: false when either is NaN
Lt(x, y) ==
    /\ ~IsNaN(x)
    /\ ~IsNaN(y)
    /\ IF IsInf(x) /\ IsInf(y) THEN x[1] < y[1]
       ELSE x[1] * x[2] * y[3] < y[1] * y[2] * x[3]

(***************************************************************************)
(* Matrix: the struct {lines, columns, data}; data is a sequence of rows.  *)
(***************************************************************************)
Matrix(l, c, d) == [lines |-> l, columns |-> c, data |-> d]

\* var empty_matrix
empty_matrix == Matrix(0, 0, <<>>)

\* a function on 1..n as a tuple of its n values
RECURSIVE Tuple(_, _)
Tuple(f, n) == IF n = 0 THEN <<>> ELSE Append(Tuple(f, n - 1), f[n])

\* a grid given as a function of functions, as n tuples of c values
RECURSIVE TupleGrid(_, _, _)
TupleGrid(g, n, c) ==
    IF n = 0 THEN <<>> ELSE Append(TupleGrid(g, n - 1, c), Tuple(g[n], c))

\* make([][]float64, n) followed by make([]float64, c) for each row
MakeGrid(n, c) == TupleGrid([i \in 1..n |-> [j \in 1..c |-> PosZero]], n, c)

\* the Matrix value NewMatrix(data) returns a pointer to
NewMatrixValue(data) ==
    IF Len(data) = 0 THEN empty_matrix
    ELSE IF Len(data[1]) = 0 THEN empty_matrix
    ELSE Matrix(Len(data), Len(data[1]), data)

NullMatrixValue(size) == Matrix(size, size, MakeGrid(size, size))

NewIdentityMatrixValue(size) ==
    Matrix(size, size,
           [i \in 1..size |-> [j \in 1..size |-> IF i = j THEN One ELSE PosZero]])

NoError == "nil"

\* Sum: <<error, result grid>>
SumValue(m, B) ==
    IF m.lines # B.lines \/ m.columns # B.columns
    THEN [err |-> "Matrix size is not the same", data |-> <<>>]
    ELSE [err |-> NoError,
          data |-> [i \in 1..m.lines |->
                      [j \in 1..m.columns |-> Add(m.data[i][j], B.data[i][j])]]]

SubValue(m, B) ==
    IF m.lines # B.lines \/ m.columns # B.columns
    THEN [err |-> "Matrix size is not the same", data |-> <<>>]
    ELSE [err |-> NoError,
          data |-> [i \in 1..m.lines |->
                      [j \in 1..m.columns |-> Sub(m.data[i][j], B.data[i][j])]]]

ScalarProductValue(m, scalar) ==
    [i \in 1..m.lines |-> [j \in 1..m.columns |-> Mul(m.data[i][j], scalar)]]

TransposeValue(m) ==
    [i \in 1..m.columns |-> [j \in 1..m.lines |-> m.data[j][i]]]

\* data[i][j] += m.data[i][k] * B.data[k][j] for k = 0 .. upto-1, from 0
RECURSIVE Dot(_, _, _, _, _)
Dot(a, b, i, j, upto) ==
    IF upto = 0 THEN PosZero
    ELSE Add(Dot(a, b, i, j, upto - 1), Mul(a[i][upto], b[upto][j]))

\* ProductData with the loop over k stopping one term early
ProductDataShort(m, B) ==
    [i \in 1..m.lines |->
       [j \in 1..B.columns |->
          Dot(m.data, B.data, i, j, IF m.columns > 0 THEN m.columns - 1 ELSE 0)]]

ProductData(m, B) ==
    [i \in 1..m.lines |-> [j \in 1..B.columns |-> Dot(m.data, B.data, i, j, m.columns)]]

\* the error of Product
DimensionError == "matrix B number of lines id different of matrix A number of columns"

ProductValue(m, B) ==
    IF m.columns # B.lines
    THEN [err |-> DimensionError, data |-> <<>>]
    ELSE [err |-> NoError, data |-> ProductData(m, B)]

\* the loop "upper triangular" of LU for row i, from column k on (1-based)
RECURSIVE UpperLoop(_, _, _, _, _)
UpperLoop(m, l, u, i, k) ==
    IF k > m.lines THEN u
    ELSE UpperLoop(m, l, [u EXCEPT ![i][k] = Sub(m.data[i][k], Dot(l, u, i, k, i - 1))],
                   i, k + 1)

\* LowerLoop without the summation subtracted from m.data[k][i]
RECURSIVE LowerLoopNoSum(_, _, _, _, _)
LowerLoopNoSum(m, l, u, i, k) ==
    IF k > m.lines THEN l
    ELSE LowerLoopNoSum(m,
                        [l EXCEPT ![k][i] =
                           IF i = k THEN One
                           ELSE IF Eq(u[i][i], PosZero) THEN PosZero
                           ELSE Div(m.data[k][i], u[i][i])],
                        u, i, k + 1)

\* LowerLoop without the guard against a zero u_data[i][i]
RECURSIVE LowerLoopNoGuard(_, _, _, _, _)
LowerLoopNoGuard(m, l, u, i, k) ==
    IF k > m.lines THEN l
    ELSE LowerLoopNoGuard(m,
                          [l EXCEPT ![k][i] =
                             IF i = k THEN One
                             ELSE Div(Sub(m.data[k][i], Dot(l, u, k, i, i - 1)), u[i][i])],
                          u, i, k + 1)

\* the loop "Lower Triangular" of LU for column i, from row k on (1-based)
RECURSIVE LowerLoop(_, _, _, _, _)
LowerLoop(m, l, u, i, k) ==
    IF k > m.lines THEN l
    ELSE LowerLoop(m,
                   [l EXCEPT ![k][i] =
                      IF i = k THEN One
                      ELSE IF Eq(u[i][i], PosZero) THEN PosZero
                      ELSE Div(Sub(m.data[k][i], Dot(l, u, k, i, i - 1)), u[i][i])],
                   u, i, k + 1)

\* LUStep with the row of U computed from the diagonal on only (k >= i)
LUStepFromDiagonal(m, lu, i) ==
    LET u == UpperLoop(m, lu[1], lu[2], i, i)
    IN  <<LowerLoop(m, lu[1], u, i, 1), u>>

\* one pass of the outer loop of LU, for i (1-based): <<l_data, u_data>> after it
LUStep(m, lu, i) ==
    LET u == UpperLoop(m, lu[1], lu[2], i, 1)
    IN  <<LowerLoop(m, lu[1], u, i, 1), u>>

RECURSIVE LULoop(_, _, _)
LULoop(m, lu, i) ==
    IF i > m.lines THEN lu ELSE LULoop(m, LUStep(m, lu, i), i + 1)

\* LU: the error and the two grids handed to NewMatrix
LUValue(m) ==
    IF m.lines # m.columns
    THEN [err |-> "matrix can't be decomposed, number of lines and columns are different",
          l |-> <<>>, u |-> <<>>]
    ELSE LET lu == LULoop(m, <<MakeGrid(m.lines, m.lines), MakeGrid(m.lines, m.lines)>>, 1)
         IN  [err |-> NoError, l |-> lu[1], u |-> lu[2]]

\* DiagProduct with diag starting from 0
RECURSIVE DiagProductFromZero(_, _)
DiagProductFromZero(u, upto) ==
    IF upto = 0 THEN PosZero ELSE Mul(DiagProductFromZero(u, upto - 1), u[upto][upto])

\* diag *= U.data[i][i] for i = 0 .. upto-1, from 1
RECURSIVE DiagProduct(_, _)
DiagProduct(u, upto) ==
    IF upto = 0 THEN One ELSE Mul(DiagProduct(u, upto - 1), u[upto][upto])

DeterminantValue(m) ==
    IF m.lines = 0 \/ m.columns = 0 THEN [err |-> "empty matrix", val |-> PosZero]
    ELSE IF m.lines # m.columns THEN [err |-> "matrix must be square", val |-> PosZero]
    ELSE IF m.lines = 1 THEN [err |-> NoError, val |-> m.data[1][1]]
    ELSE IF m.lines = 2
         THEN [err |-> NoError,
               val |-> Sub(Mul(m.data[1][1], m.data[2][2]), Mul(m.data[1][2], m.data[2][1]))]
    ELSE LET U == NewMatrixValue(LUValue(m).u)
         IN  [err |-> NoError, val |-> DiagProduct(U.data, U.lines)]

Equals(m, B) ==
    /\ m.lines = B.lines
    /\ m.columns = B.columns
    /\ \A i \in 1..m.lines : \A j \in 1..m.columns : Eq(m.data[i][j], B.data[i][j])

\* the augmented matrix [m | I] Inverse builds as its scratch copy
Augmented(m) ==
    LET order == m.lines
    IN  TupleGrid([i \in 1..order |->
                     [j \in 1..(2 * order) |->
                        IF j <= order THEN m.data[i][j]
                        ELSE IF j = i + order THEN One ELSE PosZero]],
                  order, 2 * order)

\* the row interchange, from the last row up: i is the 0-based loop index
RECURSIVE Interchange(_, _)
Interchange(aug, i) ==
    IF i <= 0 THEN aug
    ELSE Interchange(
           IF Lt(aug[i][1], aug[i + 1][1])
           THEN [aug EXCEPT ![i + 1] = aug[i], ![i] = aug[i + 1]]
           ELSE aug,
           i - 1)

\* augmented[j][k] -= augmented[i][k] * temp, from column k on (1-based)
RECURSIVE SubtractRow(_, _, _, _, _)
SubtractRow(aug, i, j, temp, k) ==
    IF k > Len(aug[j]) THEN aug
    ELSE SubtractRow([aug EXCEPT ![j][k] = Sub(aug[j][k], Mul(aug[i][k], temp))],
                     i, j, temp, k + 1)

\* the elimination of column i from the rows j on, row i skipped (1-based)
RECURSIVE Eliminate(_, _, _)
Eliminate(aug, i, j) ==
    IF j > Len(aug) THEN aug
    ELSE IF j = i THEN Eliminate(aug, i, j + 1)
    ELSE Eliminate(SubtractRow(aug, i, j, Div(aug[j][i], aug[i][i]), 1), i, j + 1)

RECURSIVE EliminateLoop(_, _)
EliminateLoop(aug, i) ==
    IF i > Len(aug) THEN aug ELSE EliminateLoop(Eliminate(aug, i, 1), i + 1)

\* augmented[i][j] /= temp, from column j on (1-based)
RECURSIVE DivideRow(_, _, _, _)
DivideRow(aug, i, temp, j) ==
    IF j > Len(aug[i]) THEN aug
    ELSE DivideRow([aug EXCEPT ![i][j] = Div(aug[i][j], temp)], i, temp, j + 1)

\* every row divided by its diagonal entry, from row i on (1-based)
RECURSIVE Normalize(_, _)
Normalize(aug, i) ==
    IF i > Len(aug) THEN aug ELSE Normalize(DivideRow(aug, i, aug[i][i], 1), i + 1)

\* the Gauss-Jordan elimination of Inverse, on the scratch matrix
GaussJordan(aug) == Normalize(EliminateLoop(Interchange(aug, Len(aug) - 1), 1), 1)

\* the right half of the augmented matrix
RightHalf(aug) ==
    [i \in 1..Len(aug) |-> [j \in 1..Len(aug) |-> aug[i][Len(aug) + j]]]

\* InverseValue without the test of the determinant against 0
InverseValueUnchecked(m) ==
    IF m.lines # m.columns THEN [err |-> "matrix musts be square", data |-> <<>>]
    ELSE LET det == DeterminantValue(m)
         IN  IF det.err # NoError THEN [err |-> det.err, data |-> <<>>]
             ELSE [err |-> NoError, data |-> RightHalf(GaussJordan(Augmented(m)))]

InverseValue(m) ==
    IF m.lines # m.columns THEN [err |-> "matrix musts be square", data |-> <<>>]
    ELSE LET det == DeterminantValue(m)
         IN  IF det.err # NoError THEN [err |-> det.err, data |-> <<>>]
             ELSE IF Eq(det.val, PosZero)
                  THEN [err |-> "determinant is zero. Matrix cannot be inverted",
                        data |-> <<>>]
             ELSE [err |-> NoError, data |-> RightHalf(GaussJordan(Augmented(m)))]

(***************************************************************************)
(* Position: a read of m.data[row-1][col-1] outside the grid is a run-time *)
(* panic (index out of range), which aborts the call.                      *)
(***************************************************************************)
PositionValue(m, row, col) ==
    IF m.lines < row
    THEN [err |-> "row number is higher than the matrix's lines", val |-> PosZero,
          aborted |-> FALSE]
    ELSE IF m.columns < col
    THEN [err |-> "column number is higher than the matrix's columns", val |-> PosZero,
          aborted |-> FALSE]
    ELSE IF row = 0 THEN [err |-> "invalid row", val |-> PosZero, aborted |-> FALSE]
    ELSE IF col = 0 THEN [err |-> "invalid column", val |-> PosZero, aborted |-> FALSE]
    ELSE IF row \in 1..Len(m.data) /\ col \in 1..Len(m.data[row])
    THEN [err |-> NoError, val |-> m.data[row][col], aborted |-> FALSE]
    ELSE [err |-> NoError, val |-> PosZero, aborted |-> TRUE]

(***************************************************************************)
(* The heap of Matrix objects. A pointer is an index of heap; the package  *)
(* variable empty_matrix is the object at EmptyAddr.  An object no pointer *)
(* is returned to (the m NewMatrix drops when it returns empty_matrix) is  *)
(* garbage and is not kept.                                                *)
(***************************************************************************)
EmptyAddr == 1

\* NewMatrix with m := empty_matrix for m := &Matrix{data: data}: the fields
\* are set on the shared empty matrix, which is returned
NewMatrixShared(h, data) ==
    IF Len(data) = 0 THEN [heap |-> [h EXCEPT ![EmptyAddr].data = data], ptr |-> EmptyAddr]
    ELSE IF Len(data[1]) = 0
    THEN [heap |-> [h EXCEPT ![EmptyAddr] = Matrix(Len(data), 0, data)], ptr |-> EmptyAddr]
    ELSE [heap |-> [h EXCEPT ![EmptyAddr] = Matrix(Len(data), Len(data[1]), data)],
          ptr |-> EmptyAddr]

\* NewMatrix returning m, with its lines set, for a grid whose first row is
\* empty
NewMatrixKeepsLines(h, data) ==
    LET m == Len(h) + 1
    IN  IF Len(data) = 0 THEN [heap |-> h, ptr |-> EmptyAddr]
        ELSE [heap |-> Append(h, Matrix(Len(data), Len(data[1]), data)), ptr |-> m]

\* NewMatrix on heap h: the heap after the call and the pointer returned
NewMatrix(h, data) ==
    LET m == Len(h) + 1
    IN  IF Len(data) = 0 THEN [heap |-> h, ptr |-> EmptyAddr]
        ELSE IF Len(data[1]) = 0 THEN [heap |-> h, ptr |-> EmptyAddr]
        ELSE [heap |-> Append(h, Matrix(Len(data), Len(data[1]), data)), ptr |-> m]

\* &Matrix{...} of NullMatrix and NewIdentityMatrix
NewObject(h, m) == [heap |-> Append(h, m), ptr |-> Len(h) + 1]

\* what a call returned: the operation, its receiver and argument (pointers,
\* 0 for none), its other inputs, the error, the pointers and the number
\* returned, and whether the call panicked
Return(op, recv, arg, in, err, res, val, aborted) ==
    [op |-> op, recv |-> recv, arg |-> arg, in |-> in, err |-> err, res |-> res,
     val |-> val, aborted |-> aborted]

\* the common guard of a call: the process has not panicked, calls are left
CanCall == fuel > 0 /\ ~ret.aborted

\* a call that fails returns nil pointers and allocates nothing
Fail(op, recv, arg, in, err) ==
    /\ heap' = heap
    /\ ret' = Return(op, recv, arg, in, err, <<>>, PosZero, FALSE)
    /\ fuel' = fuel - 1

\* a call that returns NewMatrix(data)
Succeed(op, recv, arg, in, data) ==
    LET r == NewMatrix(heap, data)
    IN  /\ heap' = r.heap
        /\ ret' = Return(op, recv, arg, in, NoError, <<r.ptr>>, PosZero, FALSE)
        /\ fuel' = fuel - 1

(***************************************************************************)
(* Inputs.                                                                 *)
(***************************************************************************)
\* the entries of the grids handed to NewMatrix in Spec
GridEntries == {F(0), F(1)}

\* rectangular grids of at most MaxDim rows and columns, [] and [[]] included
Grids ==
    UNION {[1..r -> [1..c -> GridEntries]] : r \in 0..MaxDim, c \in 0..MaxDim}

Sizes == 0..MaxDim

Scalars == {F(-1), F(2)}

\* the row and column numbers handed to Position
Indexes == -1..(MaxDim + 1)

(***************************************************************************)
(* The calls.                                                              *)
(***************************************************************************)
NewMatrixCall(data) ==
    /\ CanCall
    /\ Succeed("NewMatrix", 0, 0, <<data>>, data)

NullMatrixCall(size) ==
    LET r == NewObject(heap, NullMatrixValue(size))
    IN  /\ CanCall
        /\ heap' = r.heap
        /\ ret' = Return("NullMatrix", 0, 0, <<size>>, NoError, <<r.ptr>>, PosZero, FALSE)
        /\ fuel' = fuel - 1

NewIdentityMatrixCall(size) ==
    LET r == NewObject(heap, NewIdentityMatrixValue(size))
    IN  /\ CanCall
        /\ heap' = r.heap
        /\ ret' = Return("NewIdentityMatrix", 0, 0, <<size>>, NoError, <<r.ptr>>, PosZero,
                         FALSE)
        /\ fuel' = fuel - 1

Position(a, row, col) ==
    LET r == PositionValue(heap[a], row, col)
    IN  /\ CanCall
        /\ heap' = heap
        /\ ret' = Return("Position", a, 0, <<row, col>>, r.err, <<>>, r.val, r.aborted)
        /\ fuel' = fuel - 1

Sum(a, b) ==
    LET r == SumValue(heap[a], heap[b])
    IN  /\ CanCall
        /\ IF r.err # NoError THEN Fail("Sum", a, b, <<>>, r.err)
           ELSE Succeed("Sum", a, b, <<>>, r.data)

SubCall(a, b) ==
    LET r == SubValue(heap[a], heap[b])
    IN  /\ CanCall
        /\ IF r.err # NoError THEN Fail("Sub", a, b, <<>>, r.err)
           ELSE Succeed("Sub", a, b, <<>>, r.data)

ScalarProduct(a, scalar) ==
    /\ CanCall
    /\ Succeed("ScalarProduct", a, 0, <<scalar>>, ScalarProductValue(heap[a], scalar))

Transpose(a) ==
    /\ CanCall
    /\ Succeed("Transpose", a, 0, <<>>, TransposeValue(heap[a]))

Product(a, b) ==
    LET r == ProductValue(heap[a], heap[b])
    IN  /\ CanCall
        /\ IF r.err # NoError THEN Fail("Product", a, b, <<>>, r.err)
           ELSE Succeed("Product", a, b, <<>>, r.data)

LU(a) ==
    LET r == LUValue(heap[a])
        L == NewMatrix(heap, r.l)
        U == NewMatrix(L.heap, r.u)
    IN  /\ CanCall
        /\ IF r.err # NoError THEN Fail("LU", a, 0, <<>>, r.err)
           ELSE /\ heap' = U.heap
                /\ ret' = Return("LU", a, 0, <<>>, NoError, <<L.ptr, U.ptr>>, PosZero, FALSE)
                /\ fuel' = fuel - 1

Determinant(a) ==
    LET r == DeterminantValue(heap[a])
    IN  /\ CanCall
        /\ heap' = heap
        /\ ret' = Return("Determinant", a, 0, <<>>, r.err, <<>>, r.val, FALSE)
        /\ fuel' = fuel - 1

EqualsCall(a, b) ==
    /\ CanCall
    /\ heap' = heap
    /\ ret' = Return("Equals", a, b, <<>>, NoError, <<>>,
                     IF Equals(heap[a], heap[b]) THEN One ELSE PosZero, FALSE)
    /\ fuel' = fuel - 1

Inverse(a) ==
    LET r == InverseValue(heap[a])
    IN  /\ CanCall
        /\ IF r.err # NoError THEN Fail("Inverse", a, 0, <<>>, r.err)
           ELSE Succeed("Inverse", a, 0, <<>>, r.data)

(***************************************************************************)
(* Spec: any MaxCalls calls, from the package's initial state.             *)
(***************************************************************************)
NoCall == Return("", 0, 0, <<>>, NoError, <<>>, PosZero, FALSE)

Init ==
    /\ heap = <<empty_matrix>>
    /\ ret = NoCall
    /\ fuel = MaxCalls

Next ==
    \/ \E data \in Grids : NewMatrixCall(data)
    \/ \E size \in Sizes : NullMatrixCall(size)
    \/ \E size \in Sizes : NewIdentityMatrixCall(size)
    \/ \E a \in DOMAIN heap : \E row \in Indexes, col \in Indexes : Position(a, row, col)
    \/ \E a \in DOMAIN heap, b \in DOMAIN heap : Sum(a, b)
    \/ \E a \in DOMAIN heap, b \in DOMAIN heap : SubCall(a, b)
    \/ \E a \in DOMAIN heap : \E scalar \in Scalars : ScalarProduct(a, scalar)
    \/ \E a \in DOMAIN heap : Transpose(a)
    \/ \E a \in DOMAIN heap, b \in DOMAIN heap : Product(a, b)
    \/ \E a \in DOMAIN heap : LU(a)
    \/ \E a \in DOMAIN heap : Determinant(a)
    \/ \E a \in DOMAIN heap, b \in DOMAIN heap : EqualsCall(a, b)
    \/ \E a \in DOMAIN heap : Inverse(a)

Spec == Init /\ [][Next]_vars

(***************************************************************************)
(* SpecSquare: one call of LU, Determinant or Inverse on a square matrix   *)
(* of integers, or on an identity matrix, just constructed.                *)
(***************************************************************************)
SquareGrids ==
    UNION {[1..n -> [1..n -> {F(e) : e \in (-MaxEntry)..MaxEntry}]] : n \in 1..MaxOrder}

InitSquare ==
    /\ fuel = 1
    /\ \/ \E data \in SquareGrids :
             LET r == NewMatrix(<<empty_matrix>>, data)
             IN  /\ heap = r.heap
                 /\ ret = Return("NewMatrix", 0, 0, <<data>>, NoError, <<r.ptr>>, PosZero,
                                 FALSE)
       \/ \E size \in 0..MaxOrder :
             LET r == NewObject(<<empty_matrix>>, NewIdentityMatrixValue(size))
             IN  /\ heap = r.heap
                 /\ ret = Return("NewIdentityMatrix", 0, 0, <<size>>, NoError, <<r.ptr>>,
                                 PosZero, FALSE)

NextSquare ==
    \/ \E a \in DOMAIN heap : LU(a)
    \/ \E a \in DOMAIN heap : Determinant(a)
    \/ \E a \in DOMAIN heap : Inverse(a)

SpecSquare == InitSquare /\ [][NextSquare]_vars

(***************************************************************************)
(* Mathematics the properties are stated in: exact integers and rationals, *)
(* defined without any of the float64 operators above.                     *)
(***************************************************************************)
\* the matrix the last call was made on, and its argument
Receiver == heap[ret.recv]

Argument == heap[ret.arg]

\* the k-th matrix the last call returned
Result(k) == heap[ret.res[k]]

\* a square matrix of order n >= 0 whose entries are integers
IsIntegerSquare(m) ==
    /\ m.lines = m.columns
    /\ \A i \in 1..m.lines : \A j \in 1..m.columns : m.data[i][j][3] = 1

\* the integer grid of a matrix of integers
IntegerGrid(m) ==
    [i \in 1..m.lines |-> [j \in 1..m.columns |-> m.data[i][j][1] * m.data[i][j][2]]]

\* g without its first row and its column j
MinorGrid(g, n, j) ==
    [r \in 1..(n - 1) |-> [c \in 1..(n - 1) |-> g[r + 1][IF c < j THEN c ELSE c + 1]]]

\* the determinant of the n x n integer grid g, by expansion along its first
\* row: the terms of columns j..n
RECURSIVE Expansion(_, _, _)
Expansion(g, n, j) ==
    IF n = 0 THEN 1
    ELSE IF j > n THEN 0
    ELSE (IF j % 2 = 1 THEN 1 ELSE -1) * g[1][j] * Expansion(MinorGrid(g, n, j), n - 1, 1)
         + Expansion(g, n, j + 1)

TrueDeterminant(m) == Expansion(IntegerGrid(m), m.lines, 1)

\* the k-th leading principal minor
LeadingMinor(m, k) == Expansion(IntegerGrid(m), k, 1)

\* the rational <<numerator, denominator>> a finite float64 stands for
Rational(x) == <<x[1] * x[2], x[3]>>

RationalSum(p, q) == <<p[1] * q[2] + q[1] * p[2], p[2] * q[2]>>

RationalProduct(p, q) == <<p[1] * q[1], p[2] * q[2]>>

RationalEqual(p, q) == p[1] * q[2] = q[1] * p[2]

\* the sum over k in from..m.columns of m[i][k] * B[k][j], as a rational
RECURSIVE InnerProduct(_, _, _, _, _)
InnerProduct(m, B, i, j, from) ==
    IF from > m.columns THEN <<0, 1>>
    ELSE RationalSum(RationalProduct(Rational(m.data[i][from]), Rational(B.data[from][j])),
                     InnerProduct(m, B, i, j, from + 1))

AllFinite(m) == \A i \in 1..m.lines : \A j \in 1..m.columns : IsFinite(m.data[i][j])

\* the matrix X.Product(Y) returns when it returns no error
ProductOf(X, Y) == NewMatrixValue(ProductValue(X, Y).data)

(***************************************************************************)
(* Properties of LU, Determinant and Inverse, under SpecSquare.            *)
(***************************************************************************)
SingularError == "determinant is zero. Matrix cannot be inverted"

\* C1: for every square matrix A of integers of order n >= 1 whose
\* determinant is not zero, Inverse returns no error and a matrix X such
\* that X.Product(A) is the identity matrix of order n.
C1_InverseTimesAIsIdentity ==
    (/\ ret.op = "Inverse"
     /\ IsIntegerSquare(Receiver)
     /\ Receiver.lines >= 1
     /\ TrueDeterminant(Receiver) # 0)
    => /\ ret.err = NoError
       /\ Len(ret.res) = 1
       /\ ProductValue(Result(1), Receiver).err = NoError
       /\ Equals(ProductOf(Result(1), Receiver), NewIdentityMatrixValue(Receiver.lines))

\* C2: for every square matrix A of integers whose leading principal minors
\* are all non-zero, LU returns no error and matrices L and U such that
\* L.Product(U).Equals(A).
C2_LUProductEqualsA ==
    (/\ ret.op = "LU"
     /\ IsIntegerSquare(Receiver)
     /\ \A k \in 1..Receiver.lines : LeadingMinor(Receiver, k) # 0)
    => /\ ret.err = NoError
       /\ Len(ret.res) = 2
       /\ ProductValue(Result(1), Result(2)).err = NoError
       /\ Equals(ProductOf(Result(1), Result(2)), Receiver)

\* C2's case: an LU call on a matrix of order 3 with non-zero leading
\* principal minors whose L has non-zero entries below the diagonal in its
\* first two columns.
C2_Witness ==
    /\ ret.op = "LU"
    /\ ret.err = NoError
    /\ IsIntegerSquare(Receiver)
    /\ Receiver.lines = 3
    /\ \A k \in 1..3 : LeadingMinor(Receiver, k) # 0
    /\ ~IsZero(Result(1).data[2][1])
    /\ ~IsZero(Result(1).data[3][2])
    /\ Equals(ProductOf(Result(1), Result(2)), Receiver)

\* L[i][i] = 1 and L[i][j] = 0 for j > i
IsUnitLowerTriangular(L) ==
    \A i \in 1..L.lines : \A j \in 1..L.columns :
        /\ j = i => Eq(L.data[i][j], One)
        /\ j > i => Eq(L.data[i][j], PosZero)

\* U[i][j] = 0 for j < i
IsUpperTriangular(U) ==
    \A i \in 1..U.lines : \A j \in 1..U.columns : j < i => Eq(U.data[i][j], PosZero)

\* C3: for every square matrix, also when a computed pivot U[i][i] is zero,
\* the L that LU returns is unit lower-triangular and the U it returns is
\* upper-triangular.
C3_LUShapes ==
    (ret.op = "LU" /\ ret.err = NoError)
    => /\ IsUnitLowerTriangular(Result(1))
       /\ IsUpperTriangular(Result(2))

\* C11: for every square matrix A of integers, with no condition on its
\* leading principal minors (so also when a computed pivot U[i][i] is zero
\* and the guard sets L[k][i] = 0), the L and U that LU returns satisfy
\* L.Product(U).Equals(A): every entry A[i][k] is the sum over j of
\* L[i][j] * U[j][k].
C11_LUProductEqualsAlways ==
    (ret.op = "LU" /\ IsIntegerSquare(Receiver))
    => /\ ret.err = NoError
       /\ Len(ret.res) = 2
       /\ AllFinite(Result(1))
       /\ AllFinite(Result(2))
       /\ ProductValue(Result(1), Result(2)).err = NoError
       /\ Equals(ProductOf(Result(1), Result(2)), Receiver)
       /\ \A i \in 1..Receiver.lines : \A k \in 1..Receiver.columns :
             RationalEqual(Rational(Receiver.data[i][k]),
                           InnerProduct(Result(1), Result(2), i, k, 1))

\* C11's case: LU has returned for a matrix of order 3 whose first and
\* second leading principal minors are zero, the guard has fired and left an
\* entry of U below the diagonal, and L.Product(U) is the matrix.
C11_Witness ==
    /\ ret.op = "LU"
    /\ ret.err = NoError
    /\ IsIntegerSquare(Receiver)
    /\ Receiver.lines = 3
    /\ LeadingMinor(Receiver, 1) = 0
    /\ LeadingMinor(Receiver, 2) = 0
    /\ TrueDeterminant(Receiver) # 0
    /\ ~IsUpperTriangular(Result(2))
    /\ Equals(ProductOf(Result(1), Result(2)), Receiver)

\* C4: for every singular square matrix of integers of order n >= 1,
\* Determinant returns no error and the value 0.
C4_SingularDeterminantIsZero ==
    (/\ ret.op = "Determinant"
     /\ IsIntegerSquare(Receiver)
     /\ Receiver.lines >= 1
     /\ TrueDeterminant(Receiver) = 0)
    => /\ ret.err = NoError
       /\ Eq(ret.val, PosZero)

\* C4's case: Determinant has returned 0 for a singular matrix of order 3
\* on which the zero-pivot guard of LU fired in the first column and left a
\* U that is not upper-triangular.
C4_Witness ==
    /\ ret.op = "Determinant"
    /\ ret.err = NoError
    /\ IsIntegerSquare(Receiver)
    /\ Receiver.lines = 3
    /\ TrueDeterminant(Receiver) = 0
    /\ IsZero(LUValue(Receiver).u[1][1])
    /\ ~IsZero(LUValue(Receiver).u[2][1])
    /\ Eq(ret.val, PosZero)

DeterminantOfNewIdentity(n) ==
    /\ ret.op = "NewIdentityMatrix"
    /\ ret.in = <<n>>
    /\ ret'.op = "Determinant"
    /\ ret'.recv = ret.res[1]

\* C9 as stated: for every n >= 0, NewIdentityMatrix(n).Determinant()
\* returns 1 and no error.
C9_IdentityDeterminantIsOne ==
    [][\A n \in 0..MaxOrder :
          DeterminantOfNewIdentity(n) => (ret'.err = NoError /\ Eq(ret'.val, One))]_vars

\* C9 amended: for every n >= 1, NewIdentityMatrix(n).Determinant() returns
\* 1 and no error; for n = 0 it returns the error "empty matrix".
C9_IdentityDeterminant ==
    [][\A n \in 0..MaxOrder :
          DeterminantOfNewIdentity(n)
          => IF n >= 1 THEN ret'.err = NoError /\ Eq(ret'.val, One)
             ELSE ret'.err = "empty matrix"]_vars

\* C9's case: Determinant has returned 1 for the identity matrix of order 3,
\* by the LU path.
C9_Witness ==
    /\ ret.op = "Determinant"
    /\ Receiver = NewIdentityMatrixValue(3)
    /\ ret.recv # EmptyAddr
    /\ ret.err = NoError
    /\ Eq(ret.val, One)

(***************************************************************************)
(* Properties of the calls in sequence, under Spec.                        *)
(***************************************************************************)
\* the step is a call of op
IsCall(op) == fuel' = fuel - 1 /\ ret'.op = op

\* C6: Position(row, col) returns an error when row or col is 0 or when
\* row > Lines() or col > Columns(); for every other pair of integers it
\* returns data[row-1][col-1] and no error. It always returns (it never
\* aborts) and it leaves the matrix unchanged.
C6_Position ==
    [][IsCall("Position")
       => LET m == heap[ret'.recv]
              row == ret'.in[1]
              col == ret'.in[2]
          IN  /\ ~ret'.aborted
              /\ heap' = heap
              /\ IF row = 0 \/ col = 0 \/ row > m.lines \/ col > m.columns
                 THEN ret'.err # NoError
                 ELSE ret'.err = NoError /\ ret'.val = m.data[row][col]]_vars

\* C7: no call changes the dimensions or an entry of a matrix that exists
\* when it is made: not of its receiver, not of its argument, not of the
\* shared empty matrix.
C7_NoCallMutates ==
    [][\A a \in DOMAIN heap : a \in DOMAIN heap' /\ heap'[a] = heap[a]]_vars

\* C7's case: Inverse has succeeded on a matrix whose first two rows its
\* row interchange swaps, and the receiver is not the matrix returned.
C7_Witness ==
    /\ ret.op = "Inverse"
    /\ ret.err = NoError
    /\ Receiver.lines = 2
    /\ Lt(Receiver.data[1][1], Receiver.data[2][1])
    /\ ret.res[1] # ret.recv
    /\ ~Equals(Result(1), Receiver)

\* Lines() == 0 iff Columns() == 0, and the grid has Lines() rows of
\* Columns() entries each
IsWellFormed(m) ==
    /\ m.lines = 0 <=> m.columns = 0
    /\ Len(m.data) = m.lines
    /\ \A i \in 1..m.lines : Len(m.data[i]) = m.columns

\* C8: NewMatrix(grid) returns a matrix with no lines and no columns when
\* grid has no rows or its first row has no columns, and otherwise one with
\* as many lines as grid has rows and as many columns as its first row has
\* entries; and every matrix there is, after any calls, is well-formed.
C8_Dimensions ==
    /\ ret.op = "NewMatrix"
       => LET grid == ret.in[1]
          IN  IF Len(grid) = 0 \/ Len(grid[1]) = 0
              THEN Result(1).lines = 0 /\ Result(1).columns = 0
              ELSE Result(1).lines = Len(grid) /\ Result(1).columns = Len(grid[1])
    /\ \A a \in DOMAIN heap : IsWellFormed(heap[a])

\* C8's case: NewMatrix has been called on a grid of two rows of no columns,
\* after an earlier call has made a matrix.
C8_Witness ==
    /\ ret.op = "NewMatrix"
    /\ Len(ret.in[1]) = 2
    /\ Len(ret.in[1][1]) = 0
    /\ Result(1).lines = 0
    /\ Len(heap) > 1

\* C10: A.Product(B) fails, with no result, exactly when A.Columns() is not
\* B.Lines(); otherwise it returns no error and a matrix of A.Lines() lines
\* and B.Columns() columns whose entry (i, j) is the sum over k of
\* A[i][k] * B[k][j] (A and B of finite entries, the empty matrix included).
C10_Product ==
    (ret.op = "Product" /\ AllFinite(Receiver) /\ AllFinite(Argument))
    => IF Receiver.columns # Argument.lines
       THEN ret.err = DimensionError /\ ret.res = <<>>
       ELSE /\ ret.err = NoError
            /\ Len(ret.res) = 1
            /\ Result(1).lines = Receiver.lines
            /\ Result(1).columns = Argument.columns
            /\ \A i \in 1..Receiver.lines : \A j \in 1..Argument.columns :
                  /\ IsFinite(Result(1).data[i][j])
                  /\ RationalEqual(Rational(Result(1).data[i][j]),
                                   InnerProduct(Receiver, Argument, i, j, 1))

\* C10's case: the product of a 1 x 2 matrix and a 2 x 1 matrix has been
\* returned, and its entry is the sum of two non-zero terms.
C10_Witness ==
    /\ ret.op = "Product"
    /\ ret.err = NoError
    /\ Receiver.lines = 1
    /\ Receiver.columns = 2
    /\ Argument.columns = 1
    /\ Result(1).data[1][1] = F(2)

====
